---- MODULE Spec2Model ----
(***************************************************************************)
(* A model of db-server (src/src/lib.rs): a sequential TCP key-value       *)
(* server that loads a JSON snapshot at startup, serves GET /get?key= and  *)
(* GET /set? requests, and flushes the store when the Storage is dropped.  *)
(*                                                                         *)
(* Text is a sequence of one-character strings.  The character NUL stands  *)
(* for the byte 0 that pads the fixed-size read buffer.  All inputs are    *)
(* ASCII, for which String::from_utf8_lossy changes nothing.               *)
(***************************************************************************)
EXTENDS Integers, Sequences, FiniteSets, TLC

\* ------------------------------------------------------------------------
\* Program constants (src/src/lib.rs:16-22)
\* ------------------------------------------------------------------------
BUFFER_SIZE == 1024

NUL == "NUL"

SET_HEADER == <<"G", "E", "T", " ", "/", "s", "e", "t", "?">>

GET_HEADER == <<"G", "E", "T", " ", "/", "g", "e", "t", "?", "k", "e", "y", "=">>

SUCCESS_STATUS ==
  <<"H", "T", "T", "P", "/", "1", ".", "1", " ", "2", "0", "0", " ", "O", "K",
    "\r", "\n", "\r", "\n">>

NOT_FOUND_STATUS ==
  <<"H", "T", "T", "P", "/", "1", ".", "1", " ", "4", "0", "4", " ", "N", "O", "T",
    " ", "F", "O", "U", "N", "D", "\r", "\n", "\r", "\n">>

\* ------------------------------------------------------------------------
\* Text primitives of the Rust standard library used by the parser
\* ------------------------------------------------------------------------

\* char::is_whitespace restricted to ASCII: space, \t, \n, VT, \f, \r.
\* NUL is not whitespace.
IsWhitespace(c) == c \in {" ", "\t", "\n", "\f", "\r", "VT"}

\* str::starts_with
StartsWith(s, p) == Len(s) >= Len(p) /\ SubSeq(s, 1, Len(p)) = p

\* pat occurs in s at index i
MatchAt(s, pat, i) == i + Len(pat) - 1 <= Len(s) /\ SubSeq(s, i, i + Len(pat) - 1) = pat

\* the least index >= from at which pat occurs in s, 0 when there is none
FirstMatch(s, pat, from) ==
  IF \E i \in from..(Len(s) - Len(pat) + 1) : MatchAt(s, pat, i)
  THEN CHOOSE i \in from..(Len(s) - Len(pat) + 1) :
         /\ MatchAt(s, pat, i)
         /\ \A j \in from..(i - 1) : ~MatchAt(s, pat, j)
  ELSE 0

\* str::split(pat).collect(): every non-overlapping occurrence of pat, found
\* left to right, separates two parts; n occurrences give n + 1 parts.
RECURSIVE SplitFrom(_, _, _)
SplitFrom(s, pat, from) ==
  LET i == FirstMatch(s, pat, from)
  IN  IF i = 0
      THEN <<SubSeq(s, from, Len(s))>>
      ELSE <<SubSeq(s, from, i - 1)>> \o SplitFrom(s, pat, i + Len(pat))

Split(s, pat) == SplitFrom(s, pat, 1)

\* Option / Result values
None == [some |-> FALSE]

Some(x) == [some |-> TRUE, val |-> x]

\* str::split_whitespace().next(): the first maximal run of non-whitespace
\* characters, None when the text is empty or all whitespace.
FirstToken(s) ==
  IF \A i \in 1..Len(s) : IsWhitespace(s[i])
  THEN None
  ELSE LET b == CHOOSE i \in 1..Len(s) :
                  /\ ~IsWhitespace(s[i])
                  /\ \A j \in 1..(i - 1) : IsWhitespace(s[j])
           e == IF \E j \in b..Len(s) : IsWhitespace(s[j])
                THEN (CHOOSE j \in b..Len(s) :
                        /\ IsWhitespace(s[j])
                        /\ \A m \in b..(j - 1) : ~IsWhitespace(s[m])) - 1
                ELSE Len(s)
       IN  Some(SubSeq(s, b, e))

\* str::lines().take(1).next(): None for the empty text; otherwise the text
\* before the first "\n", without one "\r" that directly precedes that "\n";
\* the whole text when it holds no "\n".
FirstLine(s) ==
  IF Len(s) = 0
  THEN None
  ELSE LET n == FirstMatch(s, <<"\n">>, 1)
       IN  IF n = 0
           THEN Some(s)
           ELSE IF n > 1 /\ s[n - 1] = "\r"
                THEN Some(SubSeq(s, 1, n - 2))
                ELSE Some(SubSeq(s, 1, n - 1))

\* ------------------------------------------------------------------------
\* Errors (src/src/error.rs)
\* ------------------------------------------------------------------------
Ok(x) == [ok |-> TRUE, val |-> x]

Err(e) == [ok |-> FALSE, err |-> e]

\* ParseError::InvalidRequest { code } and ParseError::MissingKey
PE_InvalidRequest(code) == [kind |-> "PE_InvalidRequest", code |-> code]

PE_MissingKey == [kind |-> "PE_MissingKey", code |-> 0]

\* <ParseError as Display>::to_string, from the #[error(...)] attributes
ParseErrorToString(e) ==
  IF e.kind = "PE_MissingKey"
  THEN "No key found in request"
  ELSE CASE e.code = 1 -> "Request was improperly formatted: 1"
         [] e.code = 2 -> "Request was improperly formatted: 2"
         [] e.code = 3 -> "Request was improperly formatted: 3"
         [] e.code = 4 -> "Request was improperly formatted: 4"

\* ServerError variants; reason is "" except for ParseError
SE_ParseError(reason) == [kind |-> "ParseError", reason |-> reason]

SE_ConnectionError == [kind |-> "ConnectionError", reason |-> ""]

SE_InvalidRequest == [kind |-> "InvalidRequest", reason |-> ""]

SE_NoRequestFound == [kind |-> "NoRequestFound", reason |-> ""]

SE_NoResponseFound == [kind |-> "NoResponseFound", reason |-> ""]

SE_IoError == [kind |-> "IoError", reason |-> ""]

\* ------------------------------------------------------------------------
\* Requests and the parser (src/src/lib.rs:24-27, 146-213)
\* ------------------------------------------------------------------------
Get(key) == [cmd |-> "Get", key |-> key, val |-> <<>>]

Set(key, val) == [cmd |-> "Set", key |-> key, val |-> val]

\* parse_get that takes the whole remainder after `key=` as the key instead
\* of its first whitespace-delimited token
parse_get_WholeRemainder(request) ==
  LET parts == Split(request, <<"k", "e", "y", "=">>)
  IN  IF Len(parts) # 2
      THEN Err(PE_InvalidRequest(1))
      ELSE LET last_part == parts[Len(parts)]
           IN  IF FirstToken(last_part).some THEN Ok(last_part) ELSE Err(PE_MissingKey)

parse_get(request) ==
  LET parts == Split(request, <<"k", "e", "y", "=">>)
  IN  IF Len(parts) # 2
      THEN Err(PE_InvalidRequest(1))
      ELSE LET last_part == parts[Len(parts)]
               tok == FirstToken(last_part)
           IN  IF tok.some THEN Ok(tok.val) ELSE Err(PE_MissingKey)

\* parse_set that rejects an empty value
parse_set_NonEmptyValue(request) ==
  LET parts == Split(request, <<"s", "e", "t", "?">>)
  IN  IF Len(parts) # 2
      THEN Err(PE_InvalidRequest(2))
      ELSE LET last_part == parts[Len(parts)]
               tok == FirstToken(last_part)
           IN  IF tok.some
               THEN LET kv == Split(tok.val, <<"=">>)
                    IN  IF Len(kv) # 2 \/ kv[2] = <<>>
                        THEN Err(PE_InvalidRequest(3))
                        ELSE Ok(<<kv[1], kv[Len(kv)]>>)
               ELSE Err(PE_InvalidRequest(4))

parse_set(request) ==
  LET parts == Split(request, <<"s", "e", "t", "?">>)
  IN  IF Len(parts) # 2
      THEN Err(PE_InvalidRequest(2))
      ELSE LET last_part == parts[Len(parts)]
               tok == FirstToken(last_part)
           IN  IF tok.some
               THEN LET kv == Split(tok.val, <<"=">>)
                    IN  IF Len(kv) # 2
                        THEN Err(PE_InvalidRequest(3))
                        ELSE Ok(<<kv[1], kv[Len(kv)]>>)
               ELSE Err(PE_InvalidRequest(4))

\* let mut buffer = [0; BUFFER_SIZE]; stream.read(&mut buffer): the bytes
\* received fill the front of the buffer (at most BUFFER_SIZE of them), the
\* rest stays zero; the whole buffer is then taken as the request text.
ReadBuffer(recv) ==
  [i \in 1..BUFFER_SIZE |-> IF i <= Len(recv) THEN recv[i] ELSE NUL]

\* parse_request that reports a line with neither header as NoRequestFound
parse_request_NoSkip(recv) ==
  LET line == FirstLine(ReadBuffer(recv))
  IN  IF ~line.some
      THEN Err(SE_NoRequestFound)
      ELSE LET request == line.val
           IN  IF StartsWith(request, GET_HEADER)
               THEN LET key == parse_get(request)
                    IN  IF key.ok
                        THEN Ok(Get(key.val))
                        ELSE Err(SE_ParseError(ParseErrorToString(key.err)))
               ELSE IF StartsWith(request, SET_HEADER)
                    THEN LET kv == parse_set(request)
                         IN  IF kv.ok
                             THEN Ok(Set(kv.val[1], kv.val[2]))
                             ELSE Err(SE_ParseError(ParseErrorToString(kv.err)))
                    ELSE Err(SE_NoRequestFound)

\* parse_request that reports a failure of parse_set as InvalidRequest
parse_request_SetErrorUnrecognized(recv) ==
  LET line == FirstLine(ReadBuffer(recv))
  IN  IF ~line.some
      THEN Err(SE_NoRequestFound)
      ELSE LET request == line.val
           IN  IF StartsWith(request, GET_HEADER)
               THEN LET key == parse_get(request)
                    IN  IF key.ok
                        THEN Ok(Get(key.val))
                        ELSE Err(SE_ParseError(ParseErrorToString(key.err)))
               ELSE IF StartsWith(request, SET_HEADER)
                    THEN LET kv == parse_set(request)
                         IN  IF kv.ok
                             THEN Ok(Set(kv.val[1], kv.val[2]))
                             ELSE Err(SE_InvalidRequest)
                    ELSE Err(SE_InvalidRequest)

\* parse_request once the read has returned recv
parse_request(recv) ==
  LET line == FirstLine(ReadBuffer(recv))
  IN  IF ~line.some
      THEN Err(SE_NoRequestFound)
      ELSE LET request == line.val
           IN  IF StartsWith(request, GET_HEADER)
               THEN LET key == parse_get(request)
                    IN  IF key.ok
                        THEN Ok(Get(key.val))
                        ELSE Err(SE_ParseError(ParseErrorToString(key.err)))
               ELSE IF StartsWith(request, SET_HEADER)
                    THEN LET kv == parse_set(request)
                         IN  IF kv.ok
                             THEN Ok(Set(kv.val[1], kv.val[2]))
                             ELSE Err(SE_ParseError(ParseErrorToString(kv.err)))
                    ELSE Err(SE_InvalidRequest)

\* ------------------------------------------------------------------------
\* serde_json: Value, serialization and deserialization
\*
\* A Value is [t, s]: t is the variant (String, Number, Bool, Null) and s is
\* the string for String and the literal's text for the other variants.
\* Arrays and nested objects do not occur in the snapshots modelled here;
\* numbers are unsigned integers; the only \u escape is the one the
\* serializer writes for NUL.
\* ------------------------------------------------------------------------
QUOTE == "\""

BACKSLASH == "\\"

\* Value::from(String)
ValueFromString(str) == [t |-> "String", s |-> str]

\* an escape table that leaves the quote as it is
EscapeChar_QuoteUnescaped(c) ==
  CASE c = BACKSLASH -> <<BACKSLASH, BACKSLASH>>
    [] c = "\n"      -> <<BACKSLASH, "n">>
    [] c = "\r"      -> <<BACKSLASH, "r">>
    [] c = "\t"      -> <<BACKSLASH, "t">>
    [] c = "\f"      -> <<BACKSLASH, "f">>
    [] c = "VT"      -> <<BACKSLASH, "u", "0", "0", "0", "b">>
    [] c = NUL       -> <<BACKSLASH, "u", "0", "0", "0", "0">>
    [] OTHER         -> <<c>>

\* serde_json's escape table for one character of a string
EscapeChar(c) ==
  CASE c = QUOTE     -> <<BACKSLASH, QUOTE>>
    [] c = BACKSLASH -> <<BACKSLASH, BACKSLASH>>
    [] c = "\n"      -> <<BACKSLASH, "n">>
    [] c = "\r"      -> <<BACKSLASH, "r">>
    [] c = "\t"      -> <<BACKSLASH, "t">>
    [] c = "\f"      -> <<BACKSLASH, "f">>
    [] c = "VT"      -> <<BACKSLASH, "u", "0", "0", "0", "b">>
    [] c = NUL       -> <<BACKSLASH, "u", "0", "0", "0", "0">>
    [] OTHER         -> <<c>>

RECURSIVE EscapeFrom(_, _)
EscapeFrom(str, i) ==
  IF i > Len(str) THEN <<>> ELSE EscapeChar(str[i]) \o EscapeFrom(str, i + 1)

\* a string as JSON text: quoted and escaped
SerializeStr(str) == <<QUOTE>> \o EscapeFrom(str, 1) \o <<QUOTE>>

\* a Value as JSON text; this is also <Value as Display>::to_string
ValueToString(v) == IF v.t = "String" THEN SerializeStr(v.s) ELSE v.s

\* serde_json::to_string(&HashMap<String, Value>), the entries written in the
\* iteration order `order` (a sequence holding each key of the map once)
RECURSIVE SerializeEntries(_, _, _)
SerializeEntries(map, order, i) ==
  IF i > Len(order)
  THEN <<>>
  ELSE (IF i > 1 THEN <<",">> ELSE <<>>)
         \o SerializeStr(order[i]) \o <<":">> \o ValueToString(map[order[i]])
         \o SerializeEntries(map, order, i + 1)

to_string(map, order) == <<"{">> \o SerializeEntries(map, order, 1) \o <<"}">>

\* every iteration order of a HashMap with this key set
RECURSIVE Orders(_)
Orders(keys) ==
  IF keys = {}
  THEN {<<>>}
  ELSE UNION {{<<k>> \o o : o \in Orders(keys \ {k})} : k \in keys}

\* -- the deserializer ----------------------------------------------------
\* Parse results are [ok, val, pos]: pos is the index after what was read.
POk(v, pos) == [ok |-> TRUE, val |-> v, pos |-> pos]

PErr == [ok |-> FALSE, val |-> <<>>, pos |-> 0]

IsJsonWhitespace(c) == c \in {" ", "\t", "\n", "\r"}

IsControl(c) == c \in {NUL, "\t", "\n", "\f", "\r", "VT"}

IsDigit(c) == c \in {"0", "1", "2", "3", "4", "5", "6", "7", "8", "9"}

CharAt(t, i) == IF i >= 1 /\ i <= Len(t) THEN t[i] ELSE "EOF"

RECURSIVE SkipWs(_, _)
SkipWs(t, i) == IF IsJsonWhitespace(CharAt(t, i)) THEN SkipWs(t, i + 1) ELSE i

\* the character an escape sequence \c stands for, "EOF" when c is no escape
Unescape(c) ==
  CASE c = QUOTE     -> QUOTE
    [] c = BACKSLASH -> BACKSLASH
    [] c = "/"       -> "/"
    [] c = "n"       -> "\n"
    [] c = "r"       -> "\r"
    [] c = "t"       -> "\t"
    [] c = "f"       -> "\f"
    [] OTHER         -> "EOF"

\* the rest of a string whose opening quote has been read
RECURSIVE ParseStrFrom(_, _, _)
ParseStrFrom(t, i, acc) ==
  LET c == CharAt(t, i)
  IN  CASE c = "EOF" -> PErr
        [] c = QUOTE -> POk(acc, i + 1)
        [] c = BACKSLASH ->
             IF CharAt(t, i + 1) = "u"
             THEN IF SubSeq(t, i + 2, i + 5) = <<"0", "0", "0", "0">>
                  THEN ParseStrFrom(t, i + 6, Append(acc, NUL))
                  ELSE IF SubSeq(t, i + 2, i + 5) = <<"0", "0", "0", "b">>
                       THEN ParseStrFrom(t, i + 6, Append(acc, "VT"))
                       ELSE PErr
             ELSE IF Unescape(CharAt(t, i + 1)) = "EOF"
                  THEN PErr
                  ELSE ParseStrFrom(t, i + 2, Append(acc, Unescape(CharAt(t, i + 1))))
        [] IsControl(c) -> PErr
        [] OTHER -> ParseStrFrom(t, i + 1, Append(acc, c))

ParseStr(t, i) == IF CharAt(t, i) = QUOTE THEN ParseStrFrom(t, i + 1, <<>>) ELSE PErr

RECURSIVE DigitsEnd(_, _)
DigitsEnd(t, i) == IF IsDigit(CharAt(t, i)) THEN DigitsEnd(t, i + 1) ELSE i

\* a Value starting at index i
ParseValue(t, i) ==
  LET c == CharAt(t, i)
  IN  CASE c = QUOTE ->
             LET r == ParseStr(t, i)
             IN  IF r.ok THEN POk(ValueFromString(r.val), r.pos) ELSE PErr
        [] IsDigit(c) ->
             LET e == DigitsEnd(t, i)
             IN  IF c = "0" /\ e > i + 1
                 THEN PErr
                 ELSE POk([t |-> "Number", s |-> SubSeq(t, i, e - 1)], e)
        [] MatchAt(t, <<"t", "r", "u", "e">>, i) ->
             POk([t |-> "Bool", s |-> <<"t", "r", "u", "e">>], i + 4)
        [] MatchAt(t, <<"f", "a", "l", "s", "e">>, i) ->
             POk([t |-> "Bool", s |-> <<"f", "a", "l", "s", "e">>], i + 5)
        [] MatchAt(t, <<"n", "u", "l", "l">>, i) ->
             POk([t |-> "Null", s |-> <<"n", "u", "l", "l">>], i + 4)
        [] OTHER -> PErr

\* map with key k bound to v: HashMap::insert, a later duplicate key wins
Insert(map, k, v) == [x \in (DOMAIN map) \cup {k} |-> IF x = k THEN v ELSE map[x]]

EmptyMap == [x \in {} |-> PErr]

\* the members of an object, i at the first key; ends after the closing brace
RECURSIVE ParseMembers(_, _, _)
ParseMembers(t, i, acc) ==
  LET k == ParseStr(t, i)
  IN  IF ~k.ok
      THEN PErr
      ELSE LET c == SkipWs(t, k.pos)
           IN  IF CharAt(t, c) # ":"
               THEN PErr
               ELSE LET v == ParseValue(t, SkipWs(t, c + 1))
                    IN  IF ~v.ok
                        THEN PErr
                        ELSE LET n == SkipWs(t, v.pos)
                                 m == Insert(acc, k.val, v.val)
                             IN  CASE CharAt(t, n) = "," ->
                                        ParseMembers(t, SkipWs(t, n + 1), m)
                                   [] CharAt(t, n) = "}" -> POk(m, n + 1)
                                   [] OTHER -> PErr

\* serde_json::from_str::<HashMap<String, Value>>: one object and nothing
\* but whitespace after it
from_str(t) ==
  LET b == SkipWs(t, 1)
  IN  IF CharAt(t, b) # "{"
      THEN Err("SerdeError")
      ELSE LET f == SkipWs(t, b + 1)
               r == IF CharAt(t, f) = "}" THEN POk(EmptyMap, f + 1)
                    ELSE ParseMembers(t, f, EmptyMap)
           IN  IF r.ok /\ SkipWs(t, r.pos) = Len(t) + 1
               THEN Ok(r.val)
               ELSE Err("SerdeError")

\* ------------------------------------------------------------------------
\* Responses (src/src/lib.rs:29-33, 92-144)
\* ------------------------------------------------------------------------
GetSuccess(val) == [kind |-> "GetSuccess", val |-> val]

SetSuccess == [kind |-> "SetSuccess", val |-> <<>>]

NotFound == [kind |-> "NotFound", val |-> <<>>]

NoResponse == [kind |-> "None", val |-> <<>>]

\* handle_request whose Get binds an absent key to Null and returns it
\* (entry(key).or_insert(Value::Null))
handle_request_GetInserts(request, map) ==
  IF request.cmd = "Get"
  THEN IF request.key \in DOMAIN map
       THEN [resp |-> GetSuccess(ValueToString(map[request.key])), storage |-> map]
       ELSE [resp    |-> GetSuccess(<<"n", "u", "l", "l">>),
             storage |-> Insert(map, request.key,
                                [t |-> "Null", s |-> <<"n", "u", "l", "l">>])]
  ELSE IF request.key \in DOMAIN map
       THEN [resp    |-> SetSuccess,
             storage |-> [map EXCEPT ![request.key] = ValueFromString(request.val)]]
       ELSE [resp    |-> SetSuccess,
             storage |-> Insert(map, request.key, ValueFromString(request.val))]

\* handle_request whose Set keeps the value of an occupied entry
handle_request_SetKeepsOld(request, map) ==
  IF request.cmd = "Get"
  THEN IF request.key \in DOMAIN map
       THEN [resp |-> GetSuccess(ValueToString(map[request.key])), storage |-> map]
       ELSE [resp |-> NotFound, storage |-> map]
  ELSE IF request.key \in DOMAIN map
       THEN [resp |-> SetSuccess, storage |-> map]
       ELSE [resp    |-> SetSuccess,
             storage |-> Insert(map, request.key, ValueFromString(request.val))]

\* handle_request: the response and the storage it leaves
handle_request(request, map) ==
  IF request.cmd = "Get"
  THEN IF request.key \in DOMAIN map
       THEN [resp |-> GetSuccess(ValueToString(map[request.key])), storage |-> map]
       ELSE [resp |-> NotFound, storage |-> map]
  ELSE IF request.key \in DOMAIN map
       THEN [resp    |-> SetSuccess,
             storage |-> [map EXCEPT ![request.key] = ValueFromString(request.val)]]
       ELSE [resp    |-> SetSuccess,
             storage |-> Insert(map, request.key, ValueFromString(request.val))]

\* The three body files are external; these are their contents in the model.
GET_SUCCESS_HTML == <<"<", "g", ">">>

SET_SUCCESS_HTML == <<"<", "s", ">">>

NOT_FOUND_HTML == <<"<", "4", ">">>

\* send_response that answers NotFound with the 200 status line
ResponseBytes_NotFoundAs200(response) ==
  CASE response.kind = "GetSuccess" -> SUCCESS_STATUS \o GET_SUCCESS_HTML \o response.val
    [] response.kind = "SetSuccess" -> SUCCESS_STATUS \o SET_SUCCESS_HTML
    [] OTHER                        -> SUCCESS_STATUS \o NOT_FOUND_HTML

\* send_response: the bytes handed to stream.write_all once the body file
\* has been read
ResponseBytes(response) ==
  CASE response.kind = "GetSuccess" -> SUCCESS_STATUS \o GET_SUCCESS_HTML \o response.val
    [] response.kind = "SetSuccess" -> SUCCESS_STATUS \o SET_SUCCESS_HTML
    [] OTHER                        -> NOT_FOUND_STATUS \o NOT_FOUND_HTML

\* ------------------------------------------------------------------------
\* Bounds and inputs
\* ------------------------------------------------------------------------
\* connections accepted in one run
MaxConns == 2

\* runs of the process, one after the other on the same snapshot file
MaxRuns == 2

HTTP_TAIL == <<" ", "H", "T", "T", "P", "/", "1", ".", "1", "\r", "\n">>

\* what one read of a connection can return
Requests ==
  { GET_HEADER \o <<"a">> \o HTTP_TAIL,
    GET_HEADER \o <<"b">> \o HTTP_TAIL,
    GET_HEADER \o HTTP_TAIL,
    GET_HEADER \o <<"a">>,
    GET_HEADER \o <<"k", "e", "y", "=", "a">> \o HTTP_TAIL,
    SET_HEADER \o <<"a", "=", "x">> \o HTTP_TAIL,
    SET_HEADER \o <<"a", "=">> \o HTTP_TAIL,
    SET_HEADER \o <<"b", "=", QUOTE, BACKSLASH, NUL>> \o <<"\n">>,
    SET_HEADER \o <<"a", "b">> \o HTTP_TAIL,
    <<"G", "E", "T", " ", "/", "o", "t", "h", "e", "r">> \o HTTP_TAIL,
    <<>> }

\* the snapshot file before the first run
FileMissing == [state |-> "missing", text |-> <<>>]

FileUnreadable == [state |-> "unreadable", text |-> <<>>]

FilePresent(text) == [state |-> "present", text |-> text]

InitialSnapshots ==
  { FileMissing,
    FileUnreadable,
    FilePresent(<<>>),
    FilePresent(<<"{", QUOTE, "a", QUOTE>>),
    FilePresent(<<"{", "}">>),
    FilePresent(<<"{", QUOTE, "a", QUOTE, ":", QUOTE, "y", QUOTE, "}">>),
    FilePresent(<<"{", QUOTE, "c", QUOTE, ":", "1", "}", "\n">>) }

\* parse_request of every request of the model
Parsed == [r \in Requests |-> parse_request(r)]

\* ------------------------------------------------------------------------
\* State
\* ------------------------------------------------------------------------
VARIABLES
  pc,        \* "init", "listening", "connected", "exited"; "parse", "parsed"
  run,       \* number of this run of the process
  served,    \* connections accepted in this run
  persist,   \* the snapshot file persist.json
  storage,   \* the HashMap of the Storage
  alive,     \* the Storage exists (constructed and not yet dropped)
  conn,      \* the accepted stream: what its read returns, what was written
  exit,      \* how the run ended
  flushes,   \* times the snapshot file was written in this run
  flushLog,  \* what Drop printed in this run
  parsed,    \* result of the last parse_request
  resp,      \* Response of the last handle_request
  before,    \* history: storage before the last handled connection
  start,     \* history: the snapshot file when this run started
  loaded,    \* history: the mapping built at startup of this run
  written,   \* history: key -> value string of the last Set on it in this run
  prev,      \* history: the mapping dropped by the previous run
  input      \* the parts of the request under parse (parser specification)

vars ==
  <<pc, run, served, persist, storage, alive, conn, exit, flushes, flushLog,
    parsed, resp, before, start, loaded, written, prev, input>>

NoConn == [open |-> FALSE, readOk |-> FALSE, recv |-> <<>>, sent |-> <<>>]

NotParsed == [ok |-> FALSE, err |-> [kind |-> "None", reason |-> ""]]

Running == [kind |-> "Running", reason |-> ""]

Panic == [kind |-> "Panic", reason |-> "Failed to open persistence file"]

NotLoaded == [done |-> FALSE, map |-> EmptyMap]

NoPrev == [flush |-> "none", map |-> EmptyMap]

NoInput == [prefix |-> <<>>, payload |-> <<>>, tail |-> <<>>]

Init ==
  /\ pc = "init"
  /\ run = 1
  /\ served = 0
  /\ persist \in InitialSnapshots
  /\ storage = EmptyMap
  /\ alive = FALSE
  /\ conn = NoConn
  /\ exit = Running
  /\ flushes = 0
  /\ flushLog = <<>>
  /\ parsed = NotParsed
  /\ resp = NoResponse
  /\ before = EmptyMap
  /\ start = persist
  /\ loaded = NotLoaded
  /\ written = EmptyMap
  /\ prev = NoPrev
  /\ input = NoInput

\* ------------------------------------------------------------------------
\* Drop for Storage (src/src/lib.rs:71-90), run when server_init returns
\* with the Storage constructed.  `map` is the mapping dropped and `result`
\* what server_init returns.
\* ------------------------------------------------------------------------
\* write_all can fail after any number of bytes; the model keeps the two
\* extreme cases, nothing written and all but the last byte written.
PartialWrites(json) == {<<>>, SubSeq(json, 1, Len(json) - 1)}

Drop(map, result) ==
  /\ pc' = "exited"
  /\ alive' = FALSE
  /\ storage' = map
  /\ \E order \in Orders(DOMAIN map) :
       LET json == to_string(map, order)
       IN  \/ \* File::create fails: panic
              /\ persist' = persist
              /\ flushes' = flushes
              /\ flushLog' = <<"Flushing data to disk...">>
              /\ exit' = Panic
           \/ \* write_all fails: the file was truncated by File::create
              /\ \E part \in PartialWrites(json) : persist' = FilePresent(part)
              /\ flushes' = flushes + 1
              /\ flushLog' = <<"Flushing data to disk...",
                               "Failed to write to persistence file",
                               "Successfully flushed data to disk">>
              /\ exit' = result
           \/ \* the snapshot is written
              /\ persist' = FilePresent(json)
              /\ flushes' = flushes + 1
              /\ flushLog' = <<"Flushing data to disk...",
                               "Successfully flushed data to disk">>
              /\ exit' = result

\* ------------------------------------------------------------------------
\* server_init (src/src/lib.rs:38-69)
\* ------------------------------------------------------------------------
\* fs::read_to_string(PERSIST) fails: server_init returns before a Storage
\* exists, so nothing is dropped
StartReadFails ==
  /\ pc = "init"
  /\ persist.state # "present"
  /\ pc' = "exited"
  /\ exit' = SE_IoError
  /\ UNCHANGED <<run, served, persist, storage, alive, conn, flushes, flushLog,
                 parsed, resp, before, start, loaded, written, prev, input>>

\* the mapping the Storage is constructed with
LoadedMap(text) == IF from_str(text).ok THEN from_str(text).val ELSE EmptyMap

\* the snapshot is read, the Storage constructed, and the listener bound
StartListening ==
  /\ pc = "init"
  /\ persist.state = "present"
  /\ storage' = LoadedMap(persist.text)
  /\ alive' = TRUE
  /\ loaded' = [done |-> TRUE, map |-> LoadedMap(persist.text)]
  /\ pc' = "listening"
  /\ UNCHANGED <<run, served, persist, conn, exit, flushes, flushLog, parsed, resp,
                 before, start, written, prev, input>>

\* the snapshot is read and the Storage constructed, but TcpListener::bind
\* fails: ConnectionError, and the Storage is dropped
StartBindFails ==
  /\ pc = "init"
  /\ persist.state = "present"
  /\ loaded' = [done |-> TRUE, map |-> LoadedMap(persist.text)]
  /\ Drop(LoadedMap(persist.text), SE_ConnectionError)
  /\ UNCHANGED <<run, served, conn, parsed, resp, before, start, written, prev, input>>

\* listener.incoming() yields an error: `stream?` returns it
AcceptFails ==
  /\ pc = "listening"
  /\ served < MaxConns
  /\ Drop(storage, SE_IoError)
  /\ UNCHANGED <<run, served, conn, parsed, resp, before, start, loaded, written,
                 prev, input>>

\* listener.incoming() yields a stream; what its read will return is fixed here
Accept ==
  /\ pc = "listening"
  /\ served < MaxConns
  /\ served' = served + 1
  /\ \E ok \in BOOLEAN :
       \E r \in (IF ok THEN Requests ELSE {<<>>}) :
         conn' = [open |-> TRUE, readOk |-> ok, recv |-> r, sent |-> <<>>]
  /\ pc' = "connected"
  /\ parsed' = NotParsed
  /\ resp' = NoResponse
  /\ before' = storage
  /\ UNCHANGED <<run, persist, storage, alive, exit, flushes, flushLog, start,
                 loaded, written, prev, input>>

\* parse_request: stream.read fails, the error is returned by server_init
ReadFails ==
  /\ pc = "connected"
  /\ ~conn.readOk
  /\ parsed' = Err(SE_IoError)
  /\ Drop(storage, SE_IoError)
  /\ UNCHANGED <<run, served, conn, resp, before, start, loaded, written, prev, input>>

\* parse_request returns InvalidRequest: `continue`
SkipInvalid ==
  /\ pc = "connected"
  /\ conn.readOk
  /\ ~Parsed[conn.recv].ok
  /\ Parsed[conn.recv].err = SE_InvalidRequest
  /\ parsed' = Parsed[conn.recv]
  /\ pc' = "listening"
  /\ UNCHANGED <<run, served, persist, storage, alive, conn, exit, flushes, flushLog,
                 resp, before, start, loaded, written, prev, input>>

\* a loop that skips every request that fails to parse
ParseFails_Skips ==
  /\ pc = "connected"
  /\ conn.readOk
  /\ ~Parsed[conn.recv].ok
  /\ Parsed[conn.recv].err # SE_InvalidRequest
  /\ parsed' = Parsed[conn.recv]
  /\ pc' = "listening"
  /\ UNCHANGED <<run, served, persist, storage, alive, conn, exit, flushes, flushLog,
                 resp, before, start, loaded, written, prev, input>>

\* parse_request returns any other error: server_init returns it
ParseFails ==
  /\ pc = "connected"
  /\ conn.readOk
  /\ ~Parsed[conn.recv].ok
  /\ Parsed[conn.recv].err # SE_InvalidRequest
  /\ parsed' = Parsed[conn.recv]
  /\ Drop(storage, Parsed[conn.recv].err)
  /\ UNCHANGED <<run, served, conn, resp, before, start, loaded, written, prev, input>>

\* history: the value string of the last Set on each key
Written(request, w) ==
  IF request.cmd = "Set" THEN Insert(w, request.key, request.val) ELSE w

\* Respond that also writes the store through to the snapshot file
Respond_WritesThrough ==
  /\ pc = "connected"
  /\ conn.readOk
  /\ Parsed[conn.recv].ok
  /\ LET request == Parsed[conn.recv].val
         h == handle_request(request, storage)
     IN  /\ parsed' = Parsed[conn.recv]
         /\ resp' = h.resp
         /\ storage' = h.storage
         /\ written' = Written(request, written)
         /\ conn' = [conn EXCEPT !.sent = ResponseBytes(h.resp)]
         /\ \E order \in Orders(DOMAIN h.storage) :
              persist' = FilePresent(to_string(h.storage, order))
  /\ pc' = "listening"
  /\ UNCHANGED <<run, served, alive, exit, flushes, flushLog, before, start,
                 loaded, prev, input>>

\* the request is handled and its response written and flushed
Respond ==
  /\ pc = "connected"
  /\ conn.readOk
  /\ Parsed[conn.recv].ok
  /\ LET request == Parsed[conn.recv].val
         h == handle_request(request, storage)
     IN  /\ parsed' = Parsed[conn.recv]
         /\ resp' = h.resp
         /\ storage' = h.storage
         /\ written' = Written(request, written)
         /\ conn' = [conn EXCEPT !.sent = ResponseBytes(h.resp)]
  /\ pc' = "listening"
  /\ UNCHANGED <<run, served, persist, alive, exit, flushes, flushLog, before, start,
                 loaded, prev, input>>

\* a loop that reads the body file before it applies the command, so that a
\* missing body file leaves the store as it was
RespondNoBody_BeforeApply ==
  /\ pc = "connected"
  /\ conn.readOk
  /\ Parsed[conn.recv].ok
  /\ LET request == Parsed[conn.recv].val
         h == handle_request(request, storage)
     IN  /\ parsed' = Parsed[conn.recv]
         /\ resp' = h.resp
         /\ written' = written
         /\ Drop(storage, SE_NoResponseFound)
  /\ UNCHANGED <<run, served, conn, before, start, loaded, prev, input>>

\* the request is handled but its body file cannot be read: NoResponseFound
RespondNoBody ==
  /\ pc = "connected"
  /\ conn.readOk
  /\ Parsed[conn.recv].ok
  /\ LET request == Parsed[conn.recv].val
         h == handle_request(request, storage)
     IN  /\ parsed' = Parsed[conn.recv]
         /\ resp' = h.resp
         /\ written' = Written(request, written)
         /\ Drop(h.storage, SE_NoResponseFound)
  /\ UNCHANGED <<run, served, conn, before, start, loaded, prev, input>>

\* the request is handled but write_all or flush on the stream fails; the
\* model keeps the two extreme cases of what reached the client
RespondWriteFails ==
  /\ pc = "connected"
  /\ conn.readOk
  /\ Parsed[conn.recv].ok
  /\ LET request == Parsed[conn.recv].val
         h == handle_request(request, storage)
     IN  /\ parsed' = Parsed[conn.recv]
         /\ resp' = h.resp
         /\ written' = Written(request, written)
         /\ \E part \in PartialWrites(ResponseBytes(h.resp)) \cup {ResponseBytes(h.resp)} :
              conn' = [conn EXCEPT !.sent = part]
         /\ Drop(h.storage, SE_IoError)
  /\ UNCHANGED <<run, served, before, start, loaded, prev, input>>

\* the process is started again on the snapshot file the last run left
Restart ==
  /\ pc = "exited"
  /\ run < MaxRuns
  /\ run' = run + 1
  /\ pc' = "init"
  /\ served' = 0
  /\ prev' = [flush |-> (IF flushLog = <<>> THEN "none"
                         ELSE IF exit = Panic THEN "create_fails"
                         ELSE IF Len(flushLog) = 3 THEN "write_fails" ELSE "ok"),
              map   |-> storage]
  /\ storage' = EmptyMap
  /\ alive' = FALSE
  /\ conn' = NoConn
  /\ exit' = Running
  /\ flushes' = 0
  /\ flushLog' = <<>>
  /\ parsed' = NotParsed
  /\ resp' = NoResponse
  /\ before' = EmptyMap
  /\ start' = persist
  /\ loaded' = NotLoaded
  /\ written' = EmptyMap
  /\ UNCHANGED <<persist, input>>

Next ==
  \/ StartReadFails
  \/ StartListening
  \/ StartBindFails
  \/ AcceptFails
  \/ Accept
  \/ ReadFails
  \/ SkipInvalid
  \/ ParseFails
  \/ Respond
  \/ RespondNoBody
  \/ RespondWriteFails
  \/ Restart

Spec == Init /\ [][Next]_vars

\* ------------------------------------------------------------------------
\* The parser on its own: parse_request applied to one read, for a larger
\* set of request texts than the server specification draws from
\* ------------------------------------------------------------------------
\* tokens a request payload is built from, at most this many
MaxTokens == 3

Tokens ==
  { <<"a">>, <<"b">>, <<"=">>, <<" ">>, <<"k", "e", "y", "=">>, <<"s", "e", "t", "?">> }

RECURSIVE Payloads(_)
Payloads(n) ==
  IF n = 0
  THEN {<<>>}
  ELSE Payloads(n - 1) \cup {p \o t : p \in Payloads(n - 1), t \in Tokens}

OTHER_HEADER == <<"G", "E", "T", " ", "/", "o", "t", "h", "e", "r", "?">>

Prefixes == {GET_HEADER, SET_HEADER, OTHER_HEADER}

Tails == {HTTP_TAIL, <<"\n">>, <<>>}

ParseInputs ==
  {[prefix |-> h, payload |-> p, tail |-> t] :
     h \in Prefixes, p \in Payloads(MaxTokens), t \in Tails}

InitParse ==
  /\ pc = "parse"
  /\ input \in ParseInputs
  /\ conn = [open |-> TRUE, readOk |-> TRUE,
             recv |-> input.prefix \o input.payload \o input.tail, sent |-> <<>>]
  /\ run = 1
  /\ served = 1
  /\ persist = FilePresent(<<"{", "}">>)
  /\ storage = EmptyMap
  /\ alive = TRUE
  /\ exit = Running
  /\ flushes = 0
  /\ flushLog = <<>>
  /\ parsed = NotParsed
  /\ resp = NoResponse
  /\ before = EmptyMap
  /\ start = persist
  /\ loaded = [done |-> TRUE, map |-> EmptyMap]
  /\ written = EmptyMap
  /\ prev = NoPrev

\* parse_request on what the read returned
ParseRequest ==
  /\ pc = "parse"
  /\ parsed' = parse_request(conn.recv)
  /\ pc' = "parsed"
  /\ UNCHANGED <<run, served, persist, storage, alive, conn, exit, flushes, flushLog,
                 resp, before, start, loaded, written, prev, input>>

NextParse == ParseRequest

SpecParse == InitParse /\ [][NextParse]_vars

\* ------------------------------------------------------------------------
\* Properties
\* ------------------------------------------------------------------------
NoWhitespace(s) == \A i \in 1..Len(s) : ~IsWhitespace(s[i])

Contains(s, pat) == \E i \in 1..Len(s) : MatchAt(s, pat, i)

Count(s, c) == Cardinality({i \in 1..Len(s) : s[i] = c})

\* the last connection was parsed to this command and handled
Handled(cmd) == parsed.ok /\ parsed.val.cmd = cmd /\ resp # NoResponse

\* C1: after Set(k, v), a later Get(k) with no Set on k in between yields
\* Found(v) with v exactly the string that was set, and a response that was
\* written is the 200 status line, the get-success body, then v verbatim.
C1_SetThenGetReturnsValue ==
  (Handled("Get") /\ parsed.val.key \in DOMAIN written)
    => /\ resp = GetSuccess(written[parsed.val.key])
       /\ (pc = "listening" =>
            conn.sent = SUCCESS_STATUS \o GET_SUCCESS_HTML \o written[parsed.val.key])

\* C2: Get(k) for a key k that is neither in the mapping loaded at startup
\* nor the target of an earlier Set of this run returns NotFound.
C2_GetOfUnsetKeyNotFound ==
  (Handled("Get") /\ parsed.val.key \notin DOMAIN loaded.map
                  /\ parsed.val.key \notin DOMAIN written)
    => resp = NotFound

\* C2 witness: such a Get answered NotFound after a Set on another key
C2_Witness ==
  /\ Handled("Get")
  /\ parsed.val.key \notin DOMAIN loaded.map
  /\ parsed.val.key \notin DOMAIN written
  /\ written # EmptyMap
  /\ resp = NotFound
  /\ conn.sent = NOT_FOUND_STATUS \o NOT_FOUND_HTML

\* C3: Set(k, v) always yields Stored; afterwards k is bound to v, every
\* other key is bound as before, and no key but k was added or removed.
C3_SetBindsOnlyItsKey ==
  Handled("Set")
    => /\ resp = SetSuccess
       /\ DOMAIN storage = (DOMAIN before) \cup {parsed.val.key}
       /\ storage[parsed.val.key] = ValueFromString(parsed.val.val)
       /\ \A k \in (DOMAIN before) \ {parsed.val.key} : storage[k] = before[k]

\* C3 witness: a Set that replaced a different value, another key present
C3_Witness ==
  /\ Handled("Set")
  /\ parsed.val.key \in DOMAIN before
  /\ before[parsed.val.key] # ValueFromString(parsed.val.val)
  /\ storage[parsed.val.key] = ValueFromString(parsed.val.val)
  /\ (DOMAIN before) \ {parsed.val.key} # {}

\* C4: when the previous run flushed its store to the snapshot file, the
\* mapping this run loads equals the mapping the previous run shut down with.
C4_PersistenceRoundTrip ==
  (run > 1 /\ prev.flush = "ok" /\ pc # "init")
    => (loaded.done /\ loaded.map = prev.map)

\* C4 witness: a reloaded mapping of two keys, one value holding a quote, a
\* backslash and a NUL
C4_Witness ==
  /\ run > 1
  /\ prev.flush = "ok"
  /\ loaded.done
  /\ loaded.map = prev.map
  /\ Cardinality(DOMAIN loaded.map) >= 2
  /\ \E k \in DOMAIN loaded.map :
       loaded.map[k] = ValueFromString(<<QUOTE, BACKSLASH, NUL>>)

\* the snapshot file cannot be loaded: missing, unreadable or corrupt
Unloadable(file) == file.state # "present" \/ ~from_str(file.text).ok

\* C5: when the snapshot file is missing, unreadable or corrupt, startup
\* does not fail: the server starts with an empty mapping.
C5_LoadFailureFallsBackToEmpty ==
  (pc # "init" /\ Unloadable(start))
    => (loaded.done /\ loaded.map = EmptyMap)

\* C6: when a run has ended, the snapshot file was written exactly once in it.
C6_SnapshotWrittenExactlyOnce == pc = "exited" => flushes = 1

\* C7 as stated: `GET /get?key=<k> HTTP/1.1` with k non-empty and free of
\* whitespace parses to Get(k), whatever characters k contains.
C7_GetParsesAnyKey ==
  (pc = "parsed" /\ input.prefix = GET_HEADER /\ input.tail = HTTP_TAIL
     /\ input.payload # <<>> /\ NoWhitespace(input.payload))
    => parsed = Ok(Get(input.payload))

\* C7 amended: `GET /get?key=<k> HTTP/1.1` with k non-empty, free of
\* whitespace and not containing `key=` parses to Get(k).
C7_GetParsesKeyWithoutKeyEq ==
  (pc = "parsed" /\ input.prefix = GET_HEADER /\ input.tail = HTTP_TAIL
     /\ input.payload # <<>> /\ NoWhitespace(input.payload)
     /\ ~Contains(input.payload, <<"k", "e", "y", "=">>))
    => parsed = Ok(Get(input.payload))

\* C7 witness: a key holding `set?` and `=` parsed whole
C7_Witness ==
  /\ pc = "parsed"
  /\ input.prefix = GET_HEADER
  /\ input.tail = HTTP_TAIL
  /\ input.payload = <<"a", "s", "e", "t", "?", "=">>
  /\ parsed = Ok(Get(input.payload))

\* the index of the first `=` of a payload, 0 when it has none
FirstEq(p) == FirstMatch(p, <<"=">>, 1)

\* C8 as stated: `GET /set?<k>=<v> HTTP/1.1` with k free of whitespace and
\* `=` and v free of whitespace parses to Set(k, v), the payload split once at
\* its first `=`.
C8_SetSplitsAtFirstEq ==
  (pc = "parsed" /\ input.prefix = SET_HEADER /\ input.tail = HTTP_TAIL
     /\ NoWhitespace(input.payload) /\ FirstEq(input.payload) # 0)
    => parsed = Ok(Set(SubSeq(input.payload, 1, FirstEq(input.payload) - 1),
                       SubSeq(input.payload, FirstEq(input.payload) + 1,
                              Len(input.payload))))

\* C8 amended: the same when moreover the payload holds exactly one `=` and
\* neither k nor v contains `set?`.
C8_SetParsesSingleEq ==
  (pc = "parsed" /\ input.prefix = SET_HEADER /\ input.tail = HTTP_TAIL
     /\ NoWhitespace(input.payload) /\ Count(input.payload, "=") = 1
     /\ ~Contains(input.payload, <<"s", "e", "t", "?">>))
    => parsed = Ok(Set(SubSeq(input.payload, 1, FirstEq(input.payload) - 1),
                       SubSeq(input.payload, FirstEq(input.payload) + 1,
                              Len(input.payload))))

\* C8 witness: `GET /set?a= HTTP/1.1` parsed to Set("a", "")
C8_Witness ==
  /\ pc = "parsed"
  /\ input.prefix = SET_HEADER
  /\ input.tail = HTTP_TAIL
  /\ input.payload = <<"a", "=">>
  /\ parsed = Ok(Set(<<"a">>, <<>>))

\* C9: a line `GET /get?key=` directly followed by whitespace or the end of
\* the line fails with the missing-key failure.
C9_EmptyKeyIsMissingKey ==
  (pc = "parsed" /\ input.prefix = GET_HEADER /\ input.payload = <<>>
     /\ input.tail # <<>>)
    => parsed = Err(SE_ParseError("No key found in request"))

\* the requests whose first line has neither header
UnrecognizedRequests ==
  {r \in Requests :
     /\ ~StartsWith(FirstLine(ReadBuffer(r)).val, GET_HEADER)
     /\ ~StartsWith(FirstLine(ReadBuffer(r)).val, SET_HEADER)}

\* C10: a request whose first line starts with neither header gets no
\* response bytes, leaves the store and the snapshot file unchanged, and the
\* listener loop goes on: the server waits for the next connection.
C10_UnrecognizedIsSkipped ==
  [][(pc = "connected" /\ conn.readOk /\ conn.recv \in UnrecognizedRequests)
       => /\ pc' = "listening"
          /\ alive'
          /\ exit' = Running
          /\ storage' = storage
          /\ persist' = persist
          /\ conn'.sent = <<>>]_vars

\* C10 witness: an unrecognized request was skipped with a non-empty store,
\* and a further connection can be accepted
C10_Witness ==
  /\ pc = "listening"
  /\ conn.open
  /\ conn.recv \in UnrecognizedRequests
  /\ parsed = Err(SE_InvalidRequest)
  /\ conn.sent = <<>>
  /\ storage # EmptyMap
  /\ storage = before
  /\ served < MaxConns

\* the reasons a malformed-request failure can carry
ParseReasons ==
  { "No key found in request",
    "Request was improperly formatted: 1",
    "Request was improperly formatted: 2",
    "Request was improperly formatted: 3",
    "Request was improperly formatted: 4" }

\* C11: a first line with one of the two headers that does not parse fails
\* with the malformed-request failure carrying its reason, never with the
\* unrecognized-request failure: a get line with a second `key=` (code 1), a
\* set line with a second `set?` (code 2), a set payload without `=` or with
\* more than one (code 3).  A first line with neither header fails with the
\* unrecognized-request failure, never with the malformed one.
C11_MalformedAndUnrecognizedDisjoint ==
  pc = "parsed" =>
    /\ (input.prefix \in {GET_HEADER, SET_HEADER} /\ ~parsed.ok)
         => (parsed.err.kind = "ParseError" /\ parsed.err.reason \in ParseReasons)
    /\ (input.prefix = GET_HEADER /\ Contains(input.payload, <<"k", "e", "y", "=">>))
         => parsed = Err(SE_ParseError("Request was improperly formatted: 1"))
    /\ (input.prefix = SET_HEADER /\ Contains(input.payload, <<"s", "e", "t", "?">>))
         => parsed = Err(SE_ParseError("Request was improperly formatted: 2"))
    /\ (input.prefix = SET_HEADER /\ input.tail = HTTP_TAIL /\ input.payload # <<>>
          /\ NoWhitespace(input.payload) /\ Count(input.payload, "=") # 1
          /\ ~Contains(input.payload, <<"s", "e", "t", "?">>))
         => parsed = Err(SE_ParseError("Request was improperly formatted: 3"))
    /\ input.prefix = OTHER_HEADER => parsed = Err(SE_InvalidRequest)

\* C11 witness: `GET /set?ab HTTP/1.1` failed as malformed with code 3
C11_Witness ==
  /\ pc = "parsed"
  /\ input.prefix = SET_HEADER
  /\ input.payload = <<"a", "b">>
  /\ input.tail = HTTP_TAIL
  /\ parsed = Err(SE_ParseError("Request was improperly formatted: 3"))

\* C12: while the listener loop runs, the snapshot file is as it was when
\* the run started, whatever requests were handled or skipped: no step that
\* leaves the Storage alive changes the file.
C12_NoIntermediatePersistence ==
  /\ alive => (persist = start /\ flushes = 0)
  /\ pc \in {"listening", "connected"} => alive

\* C12 witness: the loop is running, requests have changed the mapping, and
\* the snapshot file still holds what it held at startup
C12_Witness ==
  /\ pc = "listening"
  /\ alive
  /\ served = MaxConns
  /\ storage # loaded.map
  /\ persist = start
  /\ from_str(persist.text) = Ok(loaded.map)

\* C13: handling Get(k) leaves the mapping exactly as it was, for k present
\* or absent; a Get on an absent key creates no binding for it.
C13_GetIsReadOnly ==
  Handled("Get") => (storage = before /\ DOMAIN storage = DOMAIN before)

\* C13 witness: a Get on an absent key answered NotFound, the non-empty
\* mapping unchanged and still without the key
C13_Witness ==
  /\ Handled("Get")
  /\ resp = NotFound
  /\ before # EmptyMap
  /\ storage = before
  /\ parsed.val.key \notin DOMAIN storage

\* C14: when the read of a connection returns no bytes, parse_request fails
\* with NoRequestFound and server_init returns that error; the connection is
\* not skipped as an unrecognized request.
C14_EmptyReadIsNoRequestFound ==
  (conn.open /\ conn.readOk /\ conn.recv = <<>> /\ parsed # NotParsed)
    => (parsed = Err(SE_NoRequestFound) /\ pc = "exited")

\* s is a prefix of t
IsPrefix(s, t) == Len(s) <= Len(t) /\ SubSeq(t, 1, Len(s)) = s

\* the response a Response is to be answered with: status line, body, and
\* the value for Found only
ExpectedResponse ==
  CASE resp.kind = "GetSuccess" -> SUCCESS_STATUS \o GET_SUCCESS_HTML \o resp.val
    [] resp.kind = "SetSuccess" -> SUCCESS_STATUS \o SET_SUCCESS_HTML
    [] resp.kind = "NotFound"   -> NOT_FOUND_STATUS \o NOT_FOUND_HTML
    [] OTHER                    -> <<>>

\* C15: Found and Stored are answered with the 200 status line and NotFound
\* with the 404 status line; the value follows the body only for Found; and
\* whenever the server is ready for the next connection after a parsed
\* request, exactly that one response has been written to the connection.
\* What a failed write left on the connection is a part of that response.
C15_StatusLineFollowsOutcome ==
  /\ (pc = "listening" /\ parsed.ok)
       => (resp # NoResponse /\ conn.sent = ExpectedResponse)
  /\ (pc = "connected") => conn.sent = <<>>
  /\ parsed.ok => IsPrefix(conn.sent, ExpectedResponse)
  /\ ~parsed.ok => conn.sent = <<>>

\* C15 witness: a Found outcome answered with the 200 status line, the body
\* and the value
C15_Witness ==
  /\ pc = "listening"
  /\ parsed.ok
  /\ resp.kind = "GetSuccess"
  /\ resp.val # <<>>
  /\ conn.sent = SUCCESS_STATUS \o GET_SUCCESS_HTML \o resp.val

\* Drop wrote the whole snapshot
FlushOk ==
  flushLog = <<"Flushing data to disk...", "Successfully flushed data to disk">>

\* the run ended because a body file could not be read
EndedNoBody == pc = "exited" /\ resp # NoResponse /\ exit = SE_NoResponseFound

\* C16: when the body file of an outcome cannot be read, send_response
\* fails with NoResponseFound and nothing is written to the connection; the
\* command was applied before, so after a Set(k, v) the mapping dropped binds
\* k to v, the loop has ended, and the snapshot Drop wrote binds k to v.
C16_NoBodyAfterApply ==
  EndedNoBody
    => /\ conn.sent = <<>>
       /\ ~alive
       /\ Handled("Set")
            => /\ parsed.val.key \in DOMAIN storage
               /\ storage[parsed.val.key] = ValueFromString(parsed.val.val)
               /\ FlushOk
                    => /\ from_str(persist.text).ok
                       /\ parsed.val.key \in DOMAIN from_str(persist.text).val
                       /\ from_str(persist.text).val[parsed.val.key]
                            = ValueFromString(parsed.val.val)

\* C16 witness: a Set that replaced a loaded value, its response failed for
\* want of the body file, and the snapshot written holds the new value
C16_Witness ==
  /\ EndedNoBody
  /\ Handled("Set")
  /\ FlushOk
  /\ parsed.val.key \in DOMAIN before
  /\ before[parsed.val.key] # ValueFromString(parsed.val.val)
  /\ from_str(persist.text).ok
  /\ from_str(persist.text).val[parsed.val.key] = ValueFromString(parsed.val.val)
  /\ conn.sent = <<>>

\* the last connection held a request with a header that failed to parse
Malformed == ~parsed.ok /\ parsed.err.kind = "ParseError"

\* C17: a malformed recognized request does not change the store and gets
\* no response; the loop ends (no later connection is accepted) and
\* server_init returns that failure; the mapping Drop writes to the snapshot
\* is the mapping as it was before the request.
C17_MalformedEndsLoopStoreUnchanged ==
  Malformed
    => /\ pc = "exited"
       /\ ~alive
       /\ storage = before
       /\ conn.sent = <<>>
       /\ resp = NoResponse
       /\ exit # Panic => exit = parsed.err
       /\ FlushOk => from_str(persist.text) = Ok(before)

\* C17 witness: a malformed request ended a run whose mapping had been
\* changed by an earlier Set; the snapshot written is that mapping
C17_Witness ==
  /\ Malformed
  /\ pc = "exited"
  /\ exit = parsed.err
  /\ FlushOk
  /\ before # loaded.map
  /\ storage = before
  /\ from_str(persist.text) = Ok(before)

\* Drop printed this message
Logged(msg) == \E i \in 1..Len(flushLog) : flushLog[i] = msg

\* C18: when saving the snapshot fails, at File::create or at write_all, a
\* failure diagnostic is logged and Drop does not panic; the success
\* message is logged only when the write succeeded.
C18_FailedFlushIsReportedNotFatal ==
  (pc = "exited" /\ flushLog # <<>>)
    => /\ exit # Panic
       /\ Logged("Successfully flushed data to disk")
            => /\ ~Logged("Failed to write to persistence file")
               /\ from_str(persist.text) = Ok(storage)
       /\ ~Logged("Successfully flushed data to disk")
            => Logged("Failed to write to persistence file")

\* C19: a snapshot file that exists but could not be deserialized at
\* startup holds the same contents when the run has ended.  Stated for a
\* file that held some text and for a run whose Drop met no write failure.
C19_UnreadSnapshotIsKept ==
  (pc = "exited" /\ start.state = "present" /\ ~from_str(start.text).ok
     /\ start.text # <<>> /\ FlushOk)
    => persist = start

\* C20: a short read without line break parses as the same line followed
\* by a line break does, the zero padding of the buffer being no part of key
\* or value: `GET /get?key=<k>` gives Get(k), `GET /get?key=` the
\* missing-key failure, `GET /set?<k>=<v>` gives Set(k, v).
C20_PaddingIsNotParsed ==
  (pc = "parsed" /\ input.tail = <<>>)
    => /\ (input.prefix = GET_HEADER /\ input.payload # <<>>
             /\ NoWhitespace(input.payload)
             /\ ~Contains(input.payload, <<"k", "e", "y", "=">>))
            => parsed = Ok(Get(input.payload))
       /\ (input.prefix = GET_HEADER /\ input.payload = <<>>)
            => parsed = Err(SE_ParseError("No key found in request"))
       /\ (input.prefix = SET_HEADER /\ NoWhitespace(input.payload)
             /\ Count(input.payload, "=") = 1
             /\ ~Contains(input.payload, <<"s", "e", "t", "?">>))
            => parsed = Ok(Set(SubSeq(input.payload, 1, FirstEq(input.payload) - 1),
                               SubSeq(input.payload, FirstEq(input.payload) + 1,
                                      Len(input.payload))))

====
